---- MODULE Spec2Model ----
(***************************************************************************)
(* Model of src/main.rs: the page stream all_pools, the lookup loader      *)
(* load_token_map, the column projection and file steps of                 *)
(* write_pools_parquet, and main, which drives them in sequence.           *)
(*                                                                         *)
(* The two HTTP endpoints and the file system are the environment: every   *)
(* answer they can give is a nondeterministic choice of the action that    *)
(* receives it.                                                            *)
(***************************************************************************)
EXTENDS Integers, Sequences, FiniteSets, TLC

(***************************************************************************)
(* Bounds of the model.                                                    *)
(***************************************************************************)
\* The listing has at most MaxPage pages: page MaxPage carries
\* hasNextPage = false and a page beyond it is empty.
MaxPage == 2
\* A page carries at most MaxBatch records.
MaxBatch == 2
\* The token list carries at most MaxTokens elements.
MaxTokens == 2

(***************************************************************************)
(* Data: MintInfo.address, PoolInfoV3, ApiPage, the token list.            *)
(***************************************************************************)
UNKNOWN == "UNKNOWN"

\* A JSON field that is absent or not a string (as_str() gives None).
Missing == "<missing>"

Addrs == {"mA", "mB", "mC"}

Symbols == {"SOL", "RAY"}

\* PoolInfoV3 values the decoder can produce; serde accepts any string and
\* any f64, so an empty id and a negative price decode like any other.
PoolInfoV3 ==
    { [id |-> "p1", program_id |-> "amm", price |-> 1, tvl |-> 10,
       mint_a |-> "mA", mint_b |-> "mB"],
      [id |-> "", program_id |-> "", price |-> -1, tvl |-> 0,
       mint_a |-> "mB", mint_b |-> "mC"] }

SeqsUpTo(S, n) == UNION { [1..k -> S] : k \in 0..n }

Batches == SeqsUpTo(PoolInfoV3, MaxBatch)

NoEnvelope == [success |-> FALSE, data |-> <<>>, hasNextPage |-> FALSE]

\* What one listing request can come back with: a send error, a non-2xx
\* status, a body that does not decode, or a decoded ApiPage.
ListingOutcomes(p) ==
    { [kind |-> k, page |-> NoEnvelope] : k \in {"send_err", "status_err", "decode_err"} }
    \cup
    { [kind |-> "ok", page |-> [success |-> s, data |-> b, hasNextPage |-> h]] :
        s \in BOOLEAN,
        b \in IF p > MaxPage THEN {<<>>} ELSE Batches,
        h \in IF p >= MaxPage THEN {FALSE} ELSE BOOLEAN }

\* Elements of the "tokens" array: each field is a string or is missing.
\* The listed token is the one both pools hold: mint_b of one, mint_a of the other.
TokenElems == [address : {"mB", Missing}, symbol : Symbols \cup {Missing}]

\* Decoded lookup bodies: with or without a "tokens" array.
LookupBodies ==
    { [hasTokens |-> t, tokens |-> s] : t \in {TRUE}, s \in SeqsUpTo(TokenElems, MaxTokens) }
    \cup { [hasTokens |-> FALSE, tokens |-> <<>>] }

LookupOutcomes ==
    { [kind |-> k, body |-> [hasTokens |-> FALSE, tokens |-> <<>>]] :
        k \in {"send_err", "status_err", "decode_err"} }
    \cup { [kind |-> "ok", body |-> b] : b \in LookupBodies }

\* The shape of a lookup answer: the transport or decoding error, or for a
\* decoded body whether the tokens array and every address and symbol
\* string are there.
Shape(out) ==
    IF out.kind # "ok" THEN out.kind
    ELSE IF ~out.body.hasTokens THEN "no_tokens"
    ELSE IF \E i \in 1..Len(out.body.tokens) :
               out.body.tokens[i].address = Missing \/ out.body.tokens[i].symbol = Missing
         THEN "bad_element"
         ELSE "well_formed"

EmptyMap == [a \in {} |-> UNKNOWN]

\* HashMap::insert: the later value replaces the earlier one.
insert(map, k, v) == [x \in (DOMAIN map) \cup {k} |-> IF x = k THEN v ELSE map[x]]

\* The loop of load_token_map over the tokens array; an unwrap() on a
\* missing array or field panics.
RECURSIVE BuildMap(_, _, _)
BuildMap(tokens, i, map) ==
    IF i > Len(tokens) THEN [tag |-> "ok", map |-> map]
    ELSE IF tokens[i].address = Missing \/ tokens[i].symbol = Missing
         THEN [tag |-> "panic", map |-> EmptyMap]
         ELSE BuildMap(tokens, i + 1, insert(map, tokens[i].address, tokens[i].symbol))

load_token_map(out) ==
    IF out.kind \in {"send_err", "status_err"} THEN [tag |-> "err", error |-> "transport", map |-> EmptyMap]
    ELSE IF out.kind = "decode_err" THEN [tag |-> "err", error |-> "decode", map |-> EmptyMap]
    ELSE IF ~out.body.hasTokens THEN [tag |-> "panic", error |-> "none", map |-> EmptyMap]
    ELSE LET r == BuildMap(out.body.tokens, 1, EmptyMap)
         IN  [tag |-> r.tag, error |-> "none", map |-> r.map]

(***************************************************************************)
(* The body of the stream all_pools between two suspension points.         *)
(***************************************************************************)
is_empty(batch) == Len(batch) = 0

\* Variant: the emptiness test is missing, an empty batch is yielded.
PageStep_noEmptyCheck(out) ==
    IF out.kind \in {"send_err", "status_err"} THEN [tag |-> "err", error |-> "transport"]
    ELSE IF out.kind = "decode_err" THEN [tag |-> "err", error |-> "decode"]
    ELSE IF ~out.page.success THEN [tag |-> "err", error |-> "upstream"]
    ELSE [tag |-> "yield", error |-> "none"]

\* Variant: the continuation flag is tested before the yield, so the last
\* batch is dropped.
PageStep_flagBeforeYield(out) ==
    IF out.kind \in {"send_err", "status_err"} THEN [tag |-> "err", error |-> "transport"]
    ELSE IF out.kind = "decode_err" THEN [tag |-> "err", error |-> "decode"]
    ELSE IF ~out.page.success THEN [tag |-> "err", error |-> "upstream"]
    ELSE IF is_empty(out.page.data) \/ ~out.page.hasNextPage THEN [tag |-> "break", error |-> "none"]
    ELSE [tag |-> "yield", error |-> "none"]

\* Variant: the success flag is not looked at.
PageStep_ignoreSuccess(out) ==
    IF out.kind \in {"send_err", "status_err"} THEN [tag |-> "err", error |-> "transport"]
    ELSE IF out.kind = "decode_err" THEN [tag |-> "err", error |-> "decode"]
    ELSE IF is_empty(out.page.data) THEN [tag |-> "break", error |-> "none"]
    ELSE [tag |-> "yield", error |-> "none"]

\* Variant: a failed request ends the stream as if the listing were over.
PageStep_swallowErr(out) ==
    IF out.kind # "ok" THEN [tag |-> "break", error |-> "none"]
    ELSE IF ~out.page.success THEN [tag |-> "err", error |-> "upstream"]
    ELSE IF is_empty(out.page.data) THEN [tag |-> "break", error |-> "none"]
    ELSE [tag |-> "yield", error |-> "none"]

\* From the answer to a request up to the yield, the break or the error.
PageStep(out) ==
    IF out.kind \in {"send_err", "status_err"} THEN [tag |-> "err", error |-> "transport"]
    ELSE IF out.kind = "decode_err" THEN [tag |-> "err", error |-> "decode"]
    ELSE IF ~out.page.success THEN [tag |-> "err", error |-> "upstream"]
    ELSE IF is_empty(out.page.data) THEN [tag |-> "break", error |-> "none"]
    ELSE [tag |-> "yield", error |-> "none"]

\* Variant: the continuation flag is not looked at.
StopAfterYield_never(page) == FALSE

\* After the yield: break unless the page announced a next one.
StopAfterYield(page) == ~page.hasNextPage

\* Variant: the counter skips a page.
NextPage_skip(p) == p + 2

NextPage(p) == p + 1

\* Variant: the batch goes in front of what was accumulated.
extend_prepend(acc, batch) == batch \o acc

\* all.extend(page) in main.
extend(acc, batch) == acc \o batch

\* Variant: the load is spawned and main goes on to the loop.
AfterLookupSent_spawned == "loop"

\* load_token_map(&client).await: main waits for the load before the loop.
AfterLookupSent == "lookup_wait"

\* Variant: unwrap_or_default, a failed load leaves an empty map.
AfterLookup_continue(tag) ==
    CASE tag = "ok" -> "loop"
      [] tag = "err" -> "loop"
      [] tag = "panic" -> "panicked"

\* Where main goes on what load_token_map did: Ok(map) goes on, Err leaves
\* main through `?`, a panic unwinds out of main.
AfterLookup(tag) ==
    CASE tag = "ok" -> "loop"
      [] tag = "err" -> "failed"
      [] tag = "panic" -> "panicked"

\* Variant: `while let Some(Ok(page))`, an error only ends the loop.
AfterNext_ignoreErr(tag) ==
    CASE tag = "err" -> "encode"
      [] tag = "break" -> "encode"
      [] tag = "yield" -> "loop"

\* Variant: main writes as soon as it holds a batch.
AfterNext_writeEarly(tag) ==
    CASE tag = "err" -> "failed"
      [] tag = "break" -> "encode"
      [] tag = "yield" -> "encode"

\* Where main goes on what pages.next() returned: Some(Err) leaves main
\* through `?`, None leaves the loop, Some(Ok(page)) runs the loop body.
AfterNext(tag) ==
    CASE tag = "err" -> "failed"
      [] tag = "break" -> "encode"
      [] tag = "yield" -> "loop"

(***************************************************************************)
(* Column projection of write_pools_parquet.                               *)
(***************************************************************************)
\* Variant: unwrap_or_default, a missing key gives the empty string.
get_or_unknown_default(token_map, address) ==
    IF address \in DOMAIN token_map THEN token_map[address] ELSE ""

\* token_map.get(address).map(|s| s.as_str()).unwrap_or("UNKNOWN")
get_or_unknown(token_map, address) ==
    IF address \in DOMAIN token_map THEN token_map[address] ELSE UNKNOWN

\* Variant: filter_map in place of unwrap_or, rows without a label are
\* left out of the two label columns.
Columns_dropUnknown(acc, token_map) ==
    LET known_a(p) == p.mint_a \in DOMAIN token_map
        known_b(p) == p.mint_b \in DOMAIN token_map
        as == SelectSeq(acc, known_a)
        bs == SelectSeq(acc, known_b)
    IN
    [ id         |-> [i \in 1..Len(acc) |-> acc[i].id],
      program_id |-> [i \in 1..Len(acc) |-> acc[i].program_id],
      price      |-> [i \in 1..Len(acc) |-> acc[i].price],
      tvl        |-> [i \in 1..Len(acc) |-> acc[i].tvl],
      coin_mint  |-> [i \in 1..Len(acc) |-> acc[i].mint_a],
      pc_mint    |-> [i \in 1..Len(acc) |-> acc[i].mint_b],
      symbol_a   |-> [i \in 1..Len(as) |-> token_map[as[i].mint_a]],
      symbol_b   |-> [i \in 1..Len(bs) |-> token_map[bs[i].mint_b]] ]

Columns(acc, token_map) ==
    [ id         |-> [i \in 1..Len(acc) |-> acc[i].id],
      program_id |-> [i \in 1..Len(acc) |-> acc[i].program_id],
      price      |-> [i \in 1..Len(acc) |-> acc[i].price],
      tvl        |-> [i \in 1..Len(acc) |-> acc[i].tvl],
      coin_mint  |-> [i \in 1..Len(acc) |-> acc[i].mint_a],
      pc_mint    |-> [i \in 1..Len(acc) |-> acc[i].mint_b],
      symbol_a   |-> [i \in 1..Len(acc) |-> get_or_unknown(token_map, acc[i].mint_a)],
      symbol_b   |-> [i \in 1..Len(acc) |-> get_or_unknown(token_map, acc[i].mint_b)] ]

ColumnNames == {"id", "program_id", "price", "tvl", "coin_mint", "pc_mint", "symbol_a", "symbol_b"}

NoChunk == [c \in {} |-> <<>>]

(***************************************************************************)
(* File steps of write_pools_parquet.                                      *)
(***************************************************************************)
\* Variant: one row group per row of the chunk.
RowGroups_perRow(c) ==
    [i \in 1..Len(c.id) |-> [n \in DOMAIN c |-> <<c[n][i]>>]]

\* std::iter::once(Ok(chunk)): the row groups handed to the writer.
RowGroups(c) == <<c>>

\* The argument of writer.end: None, no key-value entries.
end_metadata == <<>>

\* Variant: the handle outlives the function.
drop_file_leak(h) == h

\* The local `file` goes out of scope when the function returns.
drop_file(h) == h - 1

NothingWritten == [groups |-> <<>>, footer |-> FALSE, key_value_metadata |-> <<>>]

(***************************************************************************)
(* State.                                                                  *)
(***************************************************************************)
VARIABLES
    pc,         \* where main is
    stream,     \* where the stream returned by all_pools is
    page,       \* the stream's page counter
    lastPage,   \* the envelope the stream holds across a yield
    lookup,     \* how load_token_map ended: "pending", "ok", "err", "panic"
    lookupServed, \* what the lookup endpoint answered, "none" before it did
    token_map,  \* main's token_map
    all,        \* main's all
    err,        \* the error main returned, "none" while there is none
    inflight,   \* outbound requests awaiting their answer
    requested,  \* page numbers requested so far, in order
    served,     \* answers of the listing endpoint so far, in order
    yielded,    \* batches the stream has yielded so far, in order
    writeArgs,  \* the arguments of each call of write_pools_parquet, in order
    chunk,      \* the chunk write_pools_parquet built
    handles,    \* open handles on the destination file
    disk,       \* what the destination file holds
    fileOps,    \* file steps performed so far, in order
    written     \* the row groups and the footer handed to the file writer

vars == <<pc, stream, page, lastPage, lookup, lookupServed, token_map, all, err, inflight,
          requested, served, yielded, writeArgs, chunk, handles, disk, fileOps, written>>

retrieval == <<stream, page, lastPage, all, requested, served, yielded>>
output == <<writeArgs, chunk, handles, disk, fileOps, written>>

Init ==
    /\ pc = "start"
    /\ stream = "created"
    /\ page = 1
    /\ lastPage = NoEnvelope
    /\ lookup = "pending"
    /\ lookupServed = "none"
    /\ token_map = EmptyMap
    /\ all = <<>>
    /\ err = "none"
    /\ inflight = {}
    /\ requested = <<>>
    /\ served = <<>>
    /\ yielded = <<>>
    /\ writeArgs = <<>>
    /\ chunk = NoChunk
    /\ handles = 0
    /\ disk = <<"stale">>
    /\ fileOps = <<>>
    /\ written = NothingWritten

(***************************************************************************)
(* main: the lookup load.                                                  *)
(***************************************************************************)
\* all_pools(..) builds the stream without polling it; load_token_map
\* sends its one request and awaits the answer.
CallLoadTokenMap ==
    /\ pc = "start"
    /\ pc' = AfterLookupSent
    /\ inflight' = inflight \cup {"lookup"}
    /\ UNCHANGED <<lookup, lookupServed, token_map, err>>
    /\ UNCHANGED retrieval
    /\ UNCHANGED output

LookupResponse ==
    /\ pc = "lookup_wait"
    /\ \E out \in LookupOutcomes :
         LET r == load_token_map(out) IN
         /\ inflight' = inflight \ {"lookup"}
         /\ lookup' = r.tag
         /\ lookupServed' = Shape(out)
         /\ token_map' = r.map
         /\ err' = r.error
         /\ pc' = AfterLookup(r.tag)
    /\ UNCHANGED retrieval
    /\ UNCHANGED output

(***************************************************************************)
(* main: the while-let loop over the stream.                               *)
(***************************************************************************)
SendPage(p) ==
    /\ requested' = Append(requested, p)
    /\ inflight' = inflight \cup {"listing"}
    /\ stream' = "awaiting"
    /\ pc' = "page_wait"

\* First pages.next(): the stream body starts and requests page 1.
PollFirst ==
    /\ pc = "loop"
    /\ stream = "created"
    /\ SendPage(page)
    /\ UNCHANGED <<page, lastPage, lookup, lookupServed, token_map, all, err, served, yielded>>
    /\ UNCHANGED output

\* pages.next() after a yield, the page had no successor: the stream ends
\* and main leaves the loop.
PollResumeStop ==
    /\ pc = "loop"
    /\ stream = "yielded"
    /\ StopAfterYield(lastPage)
    /\ stream' = "ended"
    /\ pc' = "encode"
    /\ UNCHANGED <<page, lastPage, lookup, lookupServed, token_map, all, err, inflight, requested, served, yielded>>
    /\ UNCHANGED output

\* pages.next() after a yield, the page announced a successor: the counter
\* moves on and the next page is requested.
PollResumeNext ==
    /\ pc = "loop"
    /\ stream = "yielded"
    /\ ~StopAfterYield(lastPage)
    /\ page' = NextPage(page)
    /\ SendPage(NextPage(page))
    /\ UNCHANGED <<lastPage, lookup, lookupServed, token_map, all, err, served, yielded>>
    /\ UNCHANGED output

\* The answer to the request in flight arrives; the stream runs to its
\* yield, break or error and main handles what pages.next() returned.
PageResponse ==
    /\ pc = "page_wait"
    /\ stream = "awaiting"
    /\ \E out \in ListingOutcomes(page) :
         LET step == PageStep(out) IN
         /\ served' = Append(served, out)
         /\ inflight' = inflight \ {"listing"}
         /\ lastPage' = out.page
         /\ pc' = AfterNext(step.tag)
         /\ CASE step.tag = "err" ->
                   /\ stream' = "errored"
                   /\ err' = step.error
                   /\ UNCHANGED <<all, yielded>>
              [] step.tag = "break" ->
                   /\ stream' = "ended"
                   /\ UNCHANGED <<all, yielded, err>>
              [] step.tag = "yield" ->
                   /\ stream' = "yielded"
                   /\ yielded' = Append(yielded, out.page.data)
                   /\ all' = extend(all, out.page.data)
                   /\ UNCHANGED err
    /\ UNCHANGED <<page, lookup, lookupServed, token_map, requested>>
    /\ UNCHANGED output

(***************************************************************************)
(* write_pools_parquet.                                                    *)
(***************************************************************************)
\* The call: the eight columns and the chunk are built, then File::create
\* opens and truncates the destination, or fails.
WriteCreate ==
    /\ pc = "encode"
    /\ writeArgs' = Append(writeArgs, [all |-> all, token_map |-> token_map])
    /\ chunk' = Columns(all, token_map)
    /\ \E ok \in BOOLEAN :
         IF ok
         THEN /\ handles' = handles + 1
              /\ disk' = <<>>
              /\ fileOps' = Append(fileOps, "create")
              /\ pc' = "write_group"
              /\ UNCHANGED err
         ELSE /\ err' = "io"
              /\ pc' = "failed"
              /\ UNCHANGED <<handles, disk, fileOps>>
    /\ UNCHANGED <<lookup, lookupServed, token_map, inflight, written>>
    /\ UNCHANGED retrieval

\* The for loop over row_groups: the first writer.write(group) starts the
\* file with its header, each one writes its row group; an I/O error at
\* either returns from the function, which drops the file.
WriteRowGroup ==
    /\ pc = "write_group"
    /\ LET groups == RowGroups(chunk) IN
       \E outcome \in {"ok", "header_fails", "group_fails"} :
         CASE outcome = "ok" ->
                /\ disk' = disk \o <<"header">> \o [i \in 1..Len(groups) |-> "row_group"]
                /\ fileOps' = fileOps \o <<"header">> \o [i \in 1..Len(groups) |-> "row_group"]
                /\ written' = [written EXCEPT !.groups = groups]
                /\ pc' = "write_end"
                /\ UNCHANGED <<err, handles>>
           [] outcome = "header_fails" ->
                /\ err' = "io"
                /\ handles' = drop_file(handles)
                /\ fileOps' = Append(fileOps, "close")
                /\ pc' = "failed"
                /\ UNCHANGED <<disk, written>>
           [] outcome = "group_fails" ->
                /\ err' = "io"
                /\ handles' = drop_file(handles)
                /\ disk' = Append(disk, "header")
                /\ fileOps' = fileOps \o <<"header", "close">>
                /\ pc' = "failed"
                /\ UNCHANGED written
    /\ UNCHANGED <<lookup, lookupServed, token_map, inflight, writeArgs, chunk>>
    /\ UNCHANGED retrieval

\* writer.end(None): the footer, then Ok(()) and the file is dropped.
WriteEnd ==
    /\ pc = "write_end"
    /\ \E ok \in BOOLEAN :
         IF ok
         THEN /\ disk' = Append(disk, "footer")
              /\ fileOps' = fileOps \o <<"footer", "close">>
              /\ written' = [written EXCEPT !.footer = TRUE, !.key_value_metadata = end_metadata]
              /\ pc' = "done"
              /\ UNCHANGED err
         ELSE /\ err' = "io"
              /\ fileOps' = Append(fileOps, "close")
              /\ pc' = "failed"
              /\ UNCHANGED <<disk, written>>
    /\ handles' = drop_file(handles)
    /\ UNCHANGED <<lookup, lookupServed, token_map, inflight, writeArgs, chunk>>
    /\ UNCHANGED retrieval

Next ==
    \/ CallLoadTokenMap
    \/ LookupResponse
    \/ PollFirst
    \/ PollResumeStop
    \/ PollResumeNext
    \/ PageResponse
    \/ WriteCreate
    \/ WriteRowGroup
    \/ WriteEnd

Spec == Init /\ [][Next]_vars

\* The steps main takes by itself once it is polled; the answers of the
\* two endpoints are not among them.
ProgramStep ==
    \/ CallLoadTokenMap
    \/ PollFirst
    \/ PollResumeStop
    \/ PollResumeNext
    \/ WriteCreate
    \/ WriteRowGroup
    \/ WriteEnd

\* The runtime keeps polling main, so a step main can take is taken; no
\* request carries a timeout, so nothing forces an endpoint to answer.
FairSpec == Spec /\ WF_vars(ProgramStep)

(***************************************************************************)
(* Vocabulary of the properties.                                           *)
(***************************************************************************)
\* Page k was decoded into an ApiPage.
Decoded(k) == served[k].kind = "ok"

BatchOf(k) == served[k].page.data

\* The batches of pages 1..n as served.
BatchesUpTo(n) == [i \in 1..n |-> BatchOf(i)]

OneTo(n) == [i \in 1..n |-> i]

RECURSIVE Flatten(_)
Flatten(ss) == IF ss = <<>> THEN <<>> ELSE Head(ss) \o Flatten(Tail(ss))

IsPrefix(s, t) == Len(s) <= Len(t) /\ SubSeq(t, 1, Len(s)) = s

\* Page k is the first decoded page whose batch is empty.
FirstEmpty(k) ==
    /\ Decoded(k) /\ BatchOf(k) = <<>>
    /\ \A j \in 1..(k - 1) : ~(Decoded(j) /\ BatchOf(j) = <<>>)

\* Page k is decoded, non-empty, and its continuation flag is false.
LastByFlag(k) == Decoded(k) /\ BatchOf(k) # <<>> /\ ~served[k].page.hasNextPage

\* The stream has stopped after yielding page k: it is suspended at the
\* yield with nothing left but the break, or it has ended.
StoppedByFlag == (stream = "yielded" /\ pc = "loop" /\ ~ENABLED PollResumeNext) \/ stream = "ended"

Untouched == writeArgs = <<>> /\ fileOps = <<>> /\ handles = 0 /\ disk = <<"stale">> /\ chunk = NoChunk

\* The last request failed: in transport, in decoding, or by success = false.
RetrievalFailed ==
    /\ served # <<>>
    /\ (~Decoded(Len(served)) \/ ~served[Len(served)].page.success)

Encoding == pc \in {"write_group", "write_end", "done"} \/ writeArgs # <<>>

(***************************************************************************)
(* C1  Pagination termination on an empty page.                            *)
(***************************************************************************)
\* C1 as stated: whenever page k is the first page whose batch is empty, the
\* stream has yielded exactly the batches of pages 1..k-1, in order, and has
\* ended without an error.
C1_AsStated ==
    \A k \in 1..Len(served) :
        FirstEmpty(k) =>
            /\ yielded = BatchesUpTo(k - 1)
            /\ stream = "ended"

\* C1 amended: whenever page k is the first page whose batch is empty and it
\* is decoded with success = true, the stream has yielded exactly the batches
\* of pages 1..k-1, in order, and has ended without an error and without
\* yielding page k's batch.
C1_EmptyPageEnds ==
    \A k \in 1..Len(served) :
        (FirstEmpty(k) /\ served[k].page.success) =>
            /\ yielded = BatchesUpTo(k - 1)
            /\ stream = "ended"
            /\ Len(requested) = k

C1_Witness ==
    \E k \in 2..Len(served) :
        /\ FirstEmpty(k) /\ served[k].page.success
        /\ stream = "ended" /\ Len(yielded) = k - 1

(***************************************************************************)
(* C2  Pagination termination by the continuation flag.                    *)
(***************************************************************************)
\* C2 as stated: whenever page k is non-empty with hasNextPage = false, the
\* stream has yielded the batches of pages 1..k, stops there, and page k+1
\* is not requested.
C2_AsStated ==
    \A k \in 1..Len(served) :
        LastByFlag(k) =>
            /\ yielded = BatchesUpTo(k)
            /\ StoppedByFlag
            /\ requested = OneTo(k)

\* C2 amended: whenever page k is decoded with success = true, is non-empty
\* and has hasNextPage = false, the stream has yielded the batches of pages
\* 1..k, stops there, and page k+1 is not requested.
C2_FlagEnds ==
    \A k \in 1..Len(served) :
        (LastByFlag(k) /\ served[k].page.success) =>
            /\ yielded = BatchesUpTo(k)
            /\ StoppedByFlag
            /\ requested = OneTo(k)

C2_Witness ==
    \E k \in 2..Len(served) :
        /\ LastByFlag(k) /\ served[k].page.success
        /\ stream = "ended" /\ Len(yielded) = k

(***************************************************************************)
(* C3  Fail-fast on success = false.                                       *)
(***************************************************************************)
\* C3: whenever page k is decoded with success = false, whatever its batch
\* and flag, nothing is yielded for page k or later, no further page is
\* requested, and main has ended with the upstream error and written
\* nothing.
C3_UpstreamFailFast ==
    \A k \in 1..Len(served) :
        (Decoded(k) /\ ~served[k].page.success) =>
            /\ yielded = BatchesUpTo(k - 1)
            /\ requested = OneTo(k)
            /\ Len(served) = k
            /\ stream = "errored"
            /\ pc = "failed" /\ err = "upstream"
            /\ Untouched

C3_Witness ==
    \E k \in 2..Len(served) :
        /\ Decoded(k) /\ ~served[k].page.success
        /\ BatchOf(k) # <<>> /\ served[k - 1].page.hasNextPage
        /\ pc = "failed" /\ err = "upstream"

(***************************************************************************)
(* C4  No retry on a transport or decode failure.                          *)
(***************************************************************************)
\* C4: whenever the request for page N fails in transport or decoding, main
\* has failed with that error, page N was requested once and page N+1 not
\* at all.
C4_NoRetry ==
    \A n \in 1..Len(served) :
        ~Decoded(n) =>
            /\ requested = OneTo(n)
            /\ Len(served) = n
            /\ inflight = {}
            /\ stream = "errored"
            /\ pc = "failed"
            /\ err = (IF served[n].kind = "decode_err" THEN "decode" ELSE "transport")

C4_Witness ==
    \E n \in 2..Len(served) :
        /\ ~Decoded(n) /\ pc = "failed" /\ err = "transport"
        /\ Len(yielded) = n - 1

(***************************************************************************)
(* C5  Sequential page numbering.                                          *)
(***************************************************************************)
\* The pages requested are 1, 2, .., n in this order; the counter starts at
\* 1 and is the number of the last page requested; every page before the
\* last one requested was yielded non-empty with hasNextPage = true.
C5_Numbering ==
    /\ requested = OneTo(Len(requested))
    /\ page = (IF requested = <<>> THEN 1 ELSE Len(requested))
    /\ Len(yielded) >= Len(requested) - 1
    /\ \A i \in 1..(Len(requested) - 1) :
          /\ Decoded(i) /\ served[i].page.success
          /\ BatchOf(i) # <<>> /\ served[i].page.hasNextPage
          /\ yielded[i] = BatchOf(i)

\* The counter only changes by +1, in the step that resumes the stream after
\* a yield with hasNextPage = true, and that step requests the new page.
C5_CounterStep ==
    page' # page =>
        /\ page' = page + 1
        /\ stream = "yielded" /\ lastPage.hasNextPage
        /\ yielded # <<>> /\ yielded[Len(yielded)] = lastPage.data
        /\ requested' = Append(requested, page')

\* C5: the pages requested in a run are exactly 1, 2, .., n in increasing
\* order with no gap and no repeat; the counter starts at 1 and moves by
\* exactly 1, only after a non-empty batch was yielded with hasNextPage =
\* true, so page N+1 is never requested before page N's batch is yielded.
C5_Sequential == []C5_Numbering /\ [][C5_CounterStep]_vars

C5_Witness == requested = OneTo(MaxPage) /\ page = MaxPage /\ Len(yielded) = MaxPage

(***************************************************************************)
(* C6  No partial output when the retrieval fails.                         *)
(***************************************************************************)
\* C6: once the retrieval has failed on a page (transport, decode or
\* success = false), write_pools_parquet has not been called and the
\* destination has not been opened or truncated, whatever was accumulated.
C6_NoPartialOutput ==
    (stream = "errored" \/ RetrievalFailed) =>
        /\ Untouched
        /\ pc = "failed"
        /\ ~ENABLED WriteCreate

C6_Witness ==
    /\ stream = "errored" /\ Len(yielded) >= 1 /\ Len(all) >= 2
    /\ pc = "failed" /\ Untouched

(***************************************************************************)
(* C7  Encoding only after both inputs are complete.                       *)
(***************************************************************************)
\* C7: write_pools_parquet is called at most once, and only when the stream
\* has ended without an error and load_token_map has returned its map; its
\* arguments are the final collection and the final map.
C7_EncodeAfterInputs ==
    /\ Len(writeArgs) <= 1
    /\ Encoding =>
          /\ Len(writeArgs) = 1
          /\ stream = "ended"
          /\ lookup = "ok"
          /\ inflight = {}
          /\ writeArgs[1].all = all
          /\ writeArgs[1].all = Flatten(yielded)
          /\ writeArgs[1].token_map = token_map

C7_Witness ==
    /\ pc = "done" /\ Len(writeArgs) = 1
    /\ Len(yielded) >= 2 /\ DOMAIN token_map # {}

(***************************************************************************)
(* C8  The retrieval loop stops.                                           *)
(***************************************************************************)
StreamOver == stream \in {"ended", "errored"}

PastRetrieval == pc \in {"encode", "write_group", "write_end", "done", "failed", "panicked"}

\* The last answer of the listing endpoint is one the loop stops on: an
\* error, success = false, an empty batch, or hasNextPage = false.
StopAnswer ==
    /\ served # <<>>
    /\ LET o == served[Len(served)] IN
          \/ o.kind # "ok"
          \/ ~o.page.success
          \/ o.page.data = <<>>
          \/ ~o.page.hasNextPage

\* C8 as stated: whatever the listing endpoint does, once the loop has
\* issued a request the stream eventually ends or fails.
C8_AsStated == (stream = "awaiting") ~> StreamOver

\* C8 amended: the stream is over only after an error, an empty page or a
\* page with hasNextPage = false; once such an answer has arrived the stream
\* ends and the run reaches encoding or failure; and main never stalls
\* between an answer and the next request.
C8_StopsOnStopAnswer ==
    /\ [](StreamOver => StopAnswer)
    /\ StopAnswer ~> (StreamOver /\ PastRetrieval)
    /\ (pc = "loop") ~> (stream = "awaiting" \/ StreamOver)

C8_Witness ==
    /\ stream = "ended" /\ pc = "encode"
    /\ Len(served) = MaxPage /\ LastByFlag(MaxPage)

(***************************************************************************)
(* C9  Accumulation order and monotonic growth.                            *)
(***************************************************************************)
\* The accumulated collection is the concatenation of the batches yielded
\* so far, in page order and within-page order.
C9_Concatenation == all = Flatten(yielded)

\* Each step leaves the collection alone or appends the batch just yielded;
\* once the stream has ended or encoding has begun it does not change.
C9_Growth ==
    /\ IsPrefix(all, all')
    /\ all' # all =>
          /\ Len(yielded') = Len(yielded) + 1
          /\ all' = all \o yielded'[Len(yielded')]
    /\ (stream = "ended" \/ Encoding) => all' = all

\* C9: at every point the accumulated collection is the concatenation of the
\* batches yielded so far; it only grows by appending, and it is not changed
\* once encoding begins.
C9_Accumulation == []C9_Concatenation /\ [][C9_Growth]_vars

C9_Witness ==
    /\ pc = "done" /\ Len(yielded) >= 2
    /\ Len(yielded[1]) = 2 /\ yielded[1][1] # yielded[1][2]
    /\ yielded[2] # yielded[1]
    /\ all = Flatten(yielded)

(***************************************************************************)
(* C10  Row alignment.                                                     *)
(***************************************************************************)
\* C10: the chunk built from the accumulated collection has the eight
\* columns, each with as many rows as the collection has records, and row i
\* of every column is taken from record i.
C10_RowAlignment ==
    chunk # NoChunk =>
        LET acc == writeArgs[1].all
            tm  == writeArgs[1].token_map
        IN
        /\ acc = all
        /\ DOMAIN chunk = ColumnNames
        /\ \A c \in ColumnNames : DOMAIN chunk[c] = 1..Len(acc)
        /\ \A i \in 1..Len(acc) :
              /\ chunk.id[i] = acc[i].id
              /\ chunk.program_id[i] = acc[i].program_id
              /\ chunk.price[i] = acc[i].price
              /\ chunk.tvl[i] = acc[i].tvl
              /\ chunk.coin_mint[i] = acc[i].mint_a
              /\ chunk.pc_mint[i] = acc[i].mint_b
              /\ chunk.symbol_a[i] =
                    (IF acc[i].mint_a \in DOMAIN tm THEN tm[acc[i].mint_a] ELSE "UNKNOWN")
              /\ chunk.symbol_b[i] =
                    (IF acc[i].mint_b \in DOMAIN tm THEN tm[acc[i].mint_b] ELSE "UNKNOWN")

C10_Witness ==
    /\ chunk # NoChunk /\ Len(all) >= 3
    /\ all[1] # all[2]
    /\ \E i, j \in 1..Len(all) : chunk.symbol_a[i] = "UNKNOWN" /\ chunk.symbol_a[j] # "UNKNOWN"

(***************************************************************************)
(* C11  Join default.                                                      *)
(***************************************************************************)
\* A call of write_pools_parquet fails only on a file step.
WriteFailsOnlyOnIo == (writeArgs # <<>> /\ pc = "failed") => err = "io"

\* C11: at every row the A-label is the mapped label when the A-side
\* address is a key of the mapping and "UNKNOWN" when it is not, the B-label
\* likewise from the B-side address, and a missing key never makes
\* write_pools_parquet fail.
C11_JoinDefault ==
    /\ writeArgs # <<>> => chunk # NoChunk
    /\ WriteFailsOnlyOnIo
    /\ chunk # NoChunk =>
          LET acc == writeArgs[1].all
              tm  == writeArgs[1].token_map
          IN \A i \in 1..Len(acc) :
                /\ acc[i].mint_a \in DOMAIN tm => chunk.symbol_a[i] = tm[acc[i].mint_a]
                /\ acc[i].mint_a \notin DOMAIN tm => chunk.symbol_a[i] = "UNKNOWN"
                /\ acc[i].mint_b \in DOMAIN tm => chunk.symbol_b[i] = tm[acc[i].mint_b]
                /\ acc[i].mint_b \notin DOMAIN tm => chunk.symbol_b[i] = "UNKNOWN"

C11_Witness ==
    /\ pc = "done" /\ DOMAIN token_map # {}
    /\ \E i, j \in 1..Len(all) :
          /\ all[i].mint_a \in DOMAIN token_map /\ all[i].mint_b \notin DOMAIN token_map
          /\ chunk.symbol_a[i] \in Symbols /\ chunk.symbol_b[i] = "UNKNOWN"
          /\ all[j].mint_a \notin DOMAIN token_map /\ all[j].mint_b \in DOMAIN token_map
          /\ chunk.symbol_a[j] = "UNKNOWN" /\ chunk.symbol_b[j] \in Symbols

(***************************************************************************)
(* C12  Write sequence.                                                    *)
(***************************************************************************)
WriteOrder == <<"create", "header", "row_group", "footer">>

\* The file steps other than the closing of the handle, in order.
WriteSteps == SelectSeq(fileOps, LAMBDA op : op # "close")

Count(s, x) == Cardinality({i \in DOMAIN s : s[i] = x})

\* The steps taken so far are an initial part of the order; a successful
\* call has taken them all, with one row group that holds the chunk of
\* eight columns and a footer without key-value entries, and has closed the
\* file last; a failed call has closed the file right after the failing step.
C12_Order ==
    /\ IsPrefix(WriteSteps, WriteOrder)
    /\ pc = "done" =>
          /\ fileOps = WriteOrder \o <<"close">>
          /\ disk = <<"header", "row_group", "footer">>
          /\ written.groups = <<chunk>>
          /\ DOMAIN chunk = ColumnNames
          /\ written.footer /\ written.key_value_metadata = <<>>
    /\ (pc = "failed" /\ err = "io") =>
          /\ ~written.footer
          /\ fileOps \in { <<>>, <<"create", "close">>, <<"create", "header", "close">>,
                           <<"create", "header", "row_group", "close">> }

\* Once the call has returned, with or without an error, no file step follows.
C12_NoLaterStep ==
    pc \in {"failed", "done"} => UNCHANGED <<fileOps, disk, written, handles>>

\* C12: a successful call of write_pools_parquet opens and truncates the
\* destination, writes the header, one row group with the one chunk of eight
\* columns, the footer without key-value metadata, and closes, in this
\* order; an I/O failure at any step ends the call with no later step.
C12_WriteSequence == []C12_Order /\ [][C12_NoLaterStep]_vars

C12_Witness ==
    /\ pc = "done" /\ Len(all) >= 2
    /\ fileOps = <<"create", "header", "row_group", "footer", "close">>

(***************************************************************************)
(* C13  File handle discipline.                                            *)
(***************************************************************************)
\* C13: the destination is opened at most once per call, the handle is held
\* only between File::create and the return of write_pools_parquet, and it
\* is released on every way out, a failure after the opening included.
C13_HandleDiscipline ==
    /\ handles \in {0, 1}
    /\ Count(fileOps, "create") <= Len(writeArgs)
    /\ Count(fileOps, "create") <= 1
    /\ handles = Count(fileOps, "create") - Count(fileOps, "close")
    /\ handles = 1 <=> pc \in {"write_group", "write_end"}
    /\ pc \in {"done", "failed", "panicked"} => handles = 0

C13_Witness ==
    /\ pc = "failed" /\ err = "io"
    /\ fileOps = <<"create", "header", "close">>
    /\ handles = 0

(***************************************************************************)
(* C14  A malformed token list.                                            *)
(***************************************************************************)
\* C14 as stated: when the lookup body has no tokens array, or an element
\* without an address string or a symbol string, load_token_map returns a
\* decode error to main, which fails with it.
C14_AsStated ==
    lookupServed \in {"no_tokens", "bad_element"} =>
        /\ lookup = "err" /\ err = "decode"
        /\ pc = "failed"

(***************************************************************************)
(* C15  At most one request in flight.                                     *)
(***************************************************************************)
\* Listing requests sent and not yet answered.
ListingPending == Len(requested) - Len(served)

C15_AtMostOne ==
    /\ Cardinality(inflight) <= 1
    /\ ListingPending = (IF "listing" \in inflight THEN 1 ELSE 0)

\* A request is sent only when none is awaiting its answer.
C15_SendWhenIdle ==
    (~(inflight' \subseteq inflight) \/ Len(requested') > Len(requested)) => inflight = {}

\* C15: at every point of a run at most one outbound request, listing or
\* lookup, is in flight, and a request is issued only after the answer to
\* the one before it has arrived.
C15_OneInFlight == []C15_AtMostOne /\ [][C15_SendWhenIdle]_vars

C15_Witness == inflight = {"listing"} /\ Len(requested) = 2 /\ Len(served) = 1 /\ lookup = "ok"

(***************************************************************************)
(* C16  Non-empty identifiers.                                             *)
(***************************************************************************)
\* C16 as stated: every record of the accumulated collection, and so every
\* row of the chunk, has a non-empty id and a non-empty program_id.
C16_AsStated ==
    /\ \A i \in 1..Len(all) : all[i].id # "" /\ all[i].program_id # ""
    /\ chunk # NoChunk =>
          \A i \in 1..Len(chunk.id) : chunk.id[i] # "" /\ chunk.program_id[i] # ""

(***************************************************************************)
(* C17  Two pages, three rows, one mapped address.                         *)
(***************************************************************************)
AddressesUsed == UNION { {all[i].mint_a, all[i].mint_b} : i \in 1..Len(all) }

\* Page 1 with two records and hasNextPage = true, page 2 with one record
\* and hasNextPage = false, a mapping that holds one of the three addresses
\* the records use, and the run is complete.
Scenario17 ==
    /\ pc = "done"
    /\ Len(served) = 2
    /\ Decoded(1) /\ served[1].page.success
    /\ Len(BatchOf(1)) = 2 /\ served[1].page.hasNextPage
    /\ Decoded(2) /\ served[2].page.success
    /\ Len(BatchOf(2)) = 1 /\ ~served[2].page.hasNextPage
    /\ Cardinality(AddressesUsed) = 3
    /\ Cardinality(DOMAIN token_map) = 1
    /\ DOMAIN token_map \subseteq AddressesUsed

\* The label cells of the chunk: (column, row).
LabelCells == {"symbol_a", "symbol_b"} \X (1..Len(all))

MappedCells == { c \in LabelCells : \E a \in DOMAIN token_map : chunk[c[1]][c[2]] = token_map[a] }

UnknownCells == { c \in LabelCells : chunk[c[1]][c[2]] = "UNKNOWN" }

\* The address cells that hold an address of the mapping.
KeyedCells ==
    { c \in LabelCells :
        (IF c[1] = "symbol_a" THEN all[c[2]].mint_a ELSE all[c[2]].mint_b) \in DOMAIN token_map }

\* C17 as stated: in the scenario pages 1 and 2 are requested, three rows are
\* written, two label cells hold the mapped value and four hold "UNKNOWN".
C17_AsStated ==
    Scenario17 =>
        /\ requested = <<1, 2>>
        /\ \A c \in ColumnNames : Len(written.groups[1][c]) = 3
        /\ Cardinality(MappedCells) = 2
        /\ Cardinality(UnknownCells) = 4

\* C17 amended: in the scenario pages 1 and 2 are requested, three rows are
\* written, the label cells that hold the mapped value are those whose
\* address is the mapped one, at least one of the six, and all the others
\* hold "UNKNOWN".
C17_Scenario ==
    Scenario17 =>
        /\ requested = <<1, 2>>
        /\ Len(written.groups) = 1
        /\ \A c \in ColumnNames : Len(written.groups[1][c]) = 3
        /\ MappedCells = KeyedCells
        /\ UnknownCells = LabelCells \ KeyedCells
        /\ Cardinality(LabelCells) = 6
        /\ Cardinality(MappedCells) >= 1

C17_Witness == Scenario17 /\ BatchOf(1)[1] # BatchOf(1)[2] /\ Cardinality(MappedCells) = 3

(***************************************************************************)
(* C18  The lookup load comes before the listing.                          *)
(***************************************************************************)
\* C18: no listing page is requested before load_token_map has returned its
\* map; building the stream sends nothing; and when the load fails no page
\* is ever requested and the destination is never opened.
C18_LookupFirst ==
    /\ requested # <<>> => (lookup = "ok" /\ "lookup" \notin inflight)
    /\ stream # "created" => lookup = "ok"
    /\ pc = "start" => (inflight = {} /\ requested = <<>>)
    /\ lookup \in {"err", "panic"} =>
          /\ requested = <<>> /\ served = <<>> /\ stream = "created"
          /\ pc \in {"failed", "panicked"}
          /\ Untouched /\ written = NothingWritten

C18_Witness ==
    /\ lookup = "err" /\ pc = "failed" /\ err = "transport"
    /\ requested = <<>> /\ disk = <<"stale">>

(***************************************************************************)
(* C19  An empty listing still writes a file.                              *)
(***************************************************************************)
\* Page 1 decoded with success = true and an empty batch, after a
\* successful lookup load.
EmptyListing ==
    /\ lookup = "ok"
    /\ served # <<>>
    /\ Decoded(1) /\ served[1].page.success /\ BatchOf(1) = <<>>

\* C19: with an empty first page, whatever its flag, one listing request is
\* issued, nothing is yielded, main goes on to write_pools_parquet and fails
\* only if a file step does; the complete run has truncated the destination
\* and written one row group whose eight columns have no rows.
C19_EmptyListing ==
    EmptyListing =>
        /\ requested = <<1>> /\ Len(served) = 1
        /\ yielded = <<>> /\ all = <<>>
        /\ stream = "ended"
        /\ pc \in {"encode", "write_group", "write_end", "done", "failed"}
        /\ pc = "failed" => (err = "io" /\ writeArgs # <<>>)
        /\ pc = "done" =>
              /\ err = "none"
              /\ fileOps = <<"create", "header", "row_group", "footer", "close">>
              /\ disk = <<"header", "row_group", "footer">>
              /\ Len(written.groups) = 1
              /\ DOMAIN written.groups[1] = ColumnNames
              /\ \A c \in ColumnNames : Len(written.groups[1][c]) = 0

C19_Witness == EmptyListing /\ served[1].page.hasNextPage /\ pc = "done"

====
